---- MODULE Spec2Model ----
(***************************************************************************)
(* Model of the resource mutation pipeline of eve: the PUT and POST        *)
(* handlers (eve/methods/put.py, eve/methods/post.py) and the helpers they *)
(* share (eve/methods/common.py).                                          *)
(*                                                                         *)
(* A document is a function from a finite set of field names to values.    *)
(* A datetime is a record [t, aware]: t is the time in whole seconds,      *)
(* aware says whether the value carries a tzinfo.                          *)
(***************************************************************************)
EXTENDS Integers, Sequences, FiniteSets, TLC

\* ------------------------------------------------------------------ bounds
MaxId == 2
MaxTime == 2
MaxBatch == 2
NumWorkers == 2
MaxCount == 3

Ids == 1..MaxId
Workers == 1..NumWorkers

\* ------------------------------------------------- configuration constants
ID_FIELD == "_id"
LAST_UPDATED == "updated"
DATE_CREATED == "created"
STATUS_OK == "OK"
STATUS_ERR == "ERR"
\* DOMAIN[resource]['dates'], ['defaults'], schema[field]['default'], ['auth_field']
dates == {"when"}
defaults == {"status"}
schema_default == [f \in defaults |-> "active"]
auth_field == "owner"

\* ----------------------------------------------------------------- values
NoDoc == [f \in {} |-> 0]

With(doc, k, v) == [f \in DOMAIN doc \cup {k} |-> IF f = k THEN v ELSE doc[f]]

datetime(t) == [t |-> t, aware |-> FALSE]

\* datetime.replace(tzinfo=None)
replace_tzinfo_none(d) == [d EXCEPT !.aware = FALSE]

epoch == datetime(0)

\* eve.utils.document_etag: a digest of the document's content
document_etag(value) == [digest |-> value]

\* the request carried no If-Match header
NoToken == [digest |-> NoDoc]
\* an If-Match value that is the digest of no document
BogusToken == [digest |-> [f \in {"bogus"} |-> "x"]]

\* ------------------------------------------------------------ common.py
last_updated(document) ==
    IF LAST_UPDATED \in DOMAIN document
    THEN replace_tzinfo_none(document[LAST_UPDATED])
    ELSE epoch

date_created(document) ==
    IF DATE_CREATED \in DOMAIN document
    THEN document[DATE_CREATED]
    ELSE epoch

\* the document as get_document leaves it before the etag comparison
normalized(document) ==
    With(With(document, LAST_UPDATED, last_updated(document)),
         DATE_CREATED, date_created(document))

\* get_document comparing the etag of the document as fetched, before
\* last_updated and date_created are applied
get_document_raw(found, if_match) ==
    IF found = NoDoc
    THEN [document |-> NoDoc, status |-> 0]
    ELSE IF if_match = NoToken
    THEN [document |-> found, status |-> 403]
    ELSE IF if_match # document_etag(found)
    THEN [document |-> normalized(found), status |-> 412]
    ELSE [document |-> normalized(found), status |-> 0]

\* get_document without the test for a missing If-Match
get_document_nocheck(found, if_match) ==
    IF found = NoDoc
    THEN [document |-> NoDoc, status |-> 0]
    ELSE IF if_match # document_etag(normalized(found))
    THEN [document |-> normalized(found), status |-> 412]
    ELSE [document |-> normalized(found), status |-> 0]

\* get_document: found is what find_one returned, if_match the request's
\* If-Match.  status 0: the document is returned to the caller.
get_document(found, if_match) ==
    IF found = NoDoc
    THEN [document |-> NoDoc, status |-> 0]
    ELSE IF if_match = NoToken
    THEN [document |-> found, status |-> 403]
    ELSE IF if_match # document_etag(normalized(found))
    THEN [document |-> normalized(found), status |-> 412]
    ELSE [document |-> normalized(found), status |-> 0]

\* ----------------------------------------------------------------- parse
\* eve.utils.str_to_date on the wire strings of the model: "d1" is the
\* RFC-1123 rendering of second 1, "junk" is no date and raises ValueError
str_to_date_raises(s) == s = "junk"

str_to_date(s) == datetime(1)

\* a payload unit that is no mapping (a JSON string, a list): the one
\* pseudo-field "$text" stands for a value that has no keys()
NotAMapping == [f \in {"$text"} |-> "text"]

is_mapping(value) == "$text" \notin DOMAIN value

\* the payload units a client can send: a mapping with a name, possibly a
\* status, possibly a date field in wire form; or a value that is no mapping
PayloadUnits ==
    {[f \in {"name"} |-> n] : n \in {"a", "bad"}}
    \cup {[f \in {"name", "status"} |-> IF f = "name" THEN "b" ELSE "off"]}
    \cup {[f \in {"name", "when"} |-> IF f = "name" THEN "a" ELSE d] :
            d \in {"junk"}}
    \cup {NotAMapping}

\* the body of a replace can also carry an identity and a creation date of
\* the client's choosing
Carrying(unit) == With(With(unit, ID_FIELD, MaxId), DATE_CREATED, "d9")

ReplaceUnits ==
    {IF is_mapping(u) /\ "status" \in DOMAIN u THEN Carrying(u) ELSE u :
       u \in PayloadUnits}

\* parse injecting the defaults for POST only
parse_postonly(value, method) ==
    LET document_dates == dates \cap DOMAIN value
        coerced == [f \in DOMAIN value |->
                      IF f \in document_dates THEN str_to_date(value[f])
                      ELSE value[f]]
        missing_defaults == defaults \ DOMAIN coerced
        injected == [f \in DOMAIN coerced \cup missing_defaults |->
                       IF f \in missing_defaults THEN schema_default[f]
                       ELSE coerced[f]]
    IN IF ~is_mapping(value)
       THEN [raised |-> TRUE, error |-> "AttributeError", document |-> value]
       ELSE IF \E f \in document_dates : str_to_date_raises(value[f])
       THEN [raised |-> TRUE, error |-> "ValueError", document |-> value]
       ELSE IF method = "POST"
       THEN [raised |-> FALSE, error |-> "", document |-> injected]
       ELSE [raised |-> FALSE, error |-> "", document |-> coerced]

\* parse: date coercion, then default injection for POST and PUT.
\* raised: document.keys() or str_to_date threw (error names the exception);
\* the document is then left as it was received
parse(value, method) ==
    LET document_dates == dates \cap DOMAIN value
        coerced == [f \in DOMAIN value |->
                      IF f \in document_dates THEN str_to_date(value[f])
                      ELSE value[f]]
        missing_defaults == defaults \ DOMAIN coerced
        injected == [f \in DOMAIN coerced \cup missing_defaults |->
                       IF f \in missing_defaults THEN schema_default[f]
                       ELSE coerced[f]]
    IN IF ~is_mapping(value)
       THEN [raised |-> TRUE, error |-> "AttributeError", document |-> value]
       ELSE IF \E f \in document_dates : str_to_date_raises(value[f])
       THEN [raised |-> TRUE, error |-> "ValueError", document |-> value]
       ELSE IF method \in {"POST", "PUT"}
       THEN [raised |-> FALSE, error |-> "", document |-> injected]
       ELSE [raised |-> FALSE, error |-> "", document |-> coerced]

\* ------------------------------------------------------------- validator
\* app.validator: validator.errors after validate / validate_replace; the
\* call returns true exactly when the list is empty
validator_errors(document) ==
    IF "name" \notin DOMAIN document THEN <<"name: required field">>
    ELSE IF document["name"] = "bad" THEN <<"name: unallowed value">>
    ELSE << >>

\* ---------------------------------------------------- validate_document
\* validate_document letting the identity and creation date of the payload
\* stand where it carries them
validate_document_kept(value, method, original, utcnow, cfg) ==
    LET parsed == parse(value, method)
        document == parsed.document
        errors == validator_errors(document)
        updated == With(document, LAST_UPDATED, datetime(utcnow))
        stamped ==
            IF original # NoDoc
            THEN With(With(updated, ID_FIELD,
                           IF ID_FIELD \in DOMAIN updated
                           THEN updated[ID_FIELD] ELSE original[ID_FIELD]),
                      DATE_CREATED,
                      IF DATE_CREATED \in DOMAIN updated
                      THEN updated[DATE_CREATED] ELSE original[DATE_CREATED])
            ELSE With(updated, DATE_CREATED, updated[LAST_UPDATED])
    IN IF parsed.raised
       THEN [document |-> value, issues |-> <<parsed.error>>,
             validated |-> FALSE]
       ELSE IF errors # << >>
       THEN [document |-> document, issues |-> errors, validated |-> TRUE]
       ELSE IF ~cfg.auth_field
       THEN [document |-> stamped, issues |-> << >>, validated |-> TRUE]
       ELSE IF cfg.auth = "none"
       THEN [document |-> stamped, issues |-> <<"AttributeError">>,
             validated |-> TRUE]
       ELSE IF cfg.auth = "user"
       THEN [document |-> With(stamped, auth_field, "u"), issues |-> << >>,
             validated |-> TRUE]
       ELSE [document |-> stamped, issues |-> << >>, validated |-> TRUE]

\* cfg.auth_field: resource_def['auth_field'] is set; cfg.auth: "none" when
\* app.auth is None, "anon" when the request carries no auth value, "user"
\* when request_auth_value and request.authorization are both set.
\* validated: the validator was invoked.
validate_document(value, method, original, utcnow, cfg) ==
    LET parsed == parse(value, method)
        document == parsed.document
        errors == validator_errors(document)
        updated == With(document, LAST_UPDATED, datetime(utcnow))
        stamped ==
            IF original # NoDoc
            THEN With(With(updated, ID_FIELD, original[ID_FIELD]),
                      DATE_CREATED, original[DATE_CREATED])
            ELSE With(updated, DATE_CREATED, updated[LAST_UPDATED])
    IN IF parsed.raised
       THEN [document |-> value, issues |-> <<parsed.error>>,
             validated |-> FALSE]
       ELSE IF errors # << >>
       THEN [document |-> document, issues |-> errors, validated |-> TRUE]
       ELSE IF ~cfg.auth_field
       THEN [document |-> stamped, issues |-> << >>, validated |-> TRUE]
       ELSE IF cfg.auth = "none"
       THEN [document |-> stamped, issues |-> <<"AttributeError">>,
             validated |-> TRUE]
       ELSE IF cfg.auth = "user"
       THEN [document |-> With(stamped, auth_field, "u"), issues |-> << >>,
             validated |-> TRUE]
       ELSE [document |-> stamped, issues |-> << >>, validated |-> TRUE]

\* -------------------------------------------------------------- storage
\* app.data.find_one: the stored document as the driver hands it back; a
\* driver opened with tz_aware returns every datetime timezone-aware
storage_view(doc, tz_aware) ==
    [f \in DOMAIN doc |->
       IF f \in {LAST_UPDATED, DATE_CREATED} \cup dates
       THEN [doc[f] EXCEPT !.aware = tz_aware]
       ELSE doc[f]]

find_one(st, id, tz_aware) ==
    IF id \in DOMAIN st /\ st[id] # NoDoc
    THEN storage_view(st[id], tz_aware)
    ELSE NoDoc

FreeIds(st) == {i \in Ids : st[i] = NoDoc}

RECURSIVE FirstFree(_, _)
\* the n smallest unused identities, in increasing order
FirstFree(free, n) ==
    IF n = 0 \/ free = {} THEN << >>
    ELSE LET m == CHOOSE i \in free : \A j \in free : i <= j
         IN <<m>> \o FirstFree(free \ {m}, n - 1)

\* app.data.insert: one new identity per document, in order
insert_ids(st, documents) == FirstFree(FreeIds(st), Len(documents))

insert(st, documents) ==
    LET ids == insert_ids(st, documents)
    IN [i \in Ids |->
          IF \E k \in 1..Len(ids) : ids[k] = i
          THEN LET k == CHOOSE k \in 1..Len(ids) : ids[k] = i
               IN With(documents[k], ID_FIELD, i)
          ELSE st[i]]

\* app.data.replace
replace(st, id, document) == [st EXCEPT ![id] = document]

\* ------------------------------------------------------- response items
NoEtag == NoToken

failure_resp_item(doc_issues) ==
    [status |-> STATUS_ERR, issues |-> doc_issues, id |-> 0,
     updated |-> epoch, etag |-> NoEtag]

\* success_resp_item: posted_doc is the document re-read with find_one
success_resp_item(id, document, posted_doc) ==
    [status |-> STATUS_OK, issues |-> << >>, id |-> id,
     updated |-> document[LAST_UPDATED], etag |-> document_etag(posted_doc)]

\* ------------------------------------------------------------------ state
VARIABLES
    store,    \* the resource's collection: identity -> stored document
    now,      \* the clock, in seconds
    cfg,      \* the deployment: auth_field, auth, tz_aware, singular_inserts,
              \* RATE_LIMIT, redis
    pc,       \* per worker: where its request stands
    req,      \* per worker: the request it is serving and its locals
    redis     \* the shared counter store: key -> [count, expireat]

vars == <<store, now, cfg, pc, req, redis>>

\* app.config.get('RATE_LIMIT_' + method): << >> when the method has no
\* limit, else <<limit, period>>
Methods == {"PUT", "POST"}
NoLimit == << >>
Unlimited == [m \in Methods |-> NoLimit]

\* singular_inserts: app.config['SINGULAR_INSERTS']; RATE_LIMIT, redis: no
\* method has a limit and app.redis is None
Deployments ==
    {c \in [auth_field : BOOLEAN, auth : {"none", "anon", "user"},
            tz_aware : BOOLEAN, singular_inserts : BOOLEAN,
            RATE_LIMIT : {Unlimited}, redis : {FALSE}] :
       c.auth_field <=> c.auth # "anon"}

\* the deployments that take keyed batches
Configs == {c \in Deployments : ~c.singular_inserts}

\* the value a handler returns as the response body: a mapping of keys to
\* items (the keys are the positions of items), a (key, item) pair, or one
\* item alone
NoResponse == [shape |-> "none", key |-> "", items |-> << >>]

\* no RateLimit instance (None)
NoRateLimit ==
    [key |-> << >>, reset |-> 0, limit |-> 0, period |-> 0, current |-> 0]

\* flask.g of a request: has says whether the attribute _rate_limit was set
NoContext == [has |-> FALSE, rate_limit |-> NoRateLimit]

IdleReq ==
    [op |-> "none", id |-> 0, if_match |-> NoToken, payl |-> << >>,
     original |-> NoDoc, documents |-> << >>, issues |-> << >>,
     ids |-> << >>, resp |-> << >>, response |-> NoResponse, status |-> 0,
     log |-> << >>, replay |-> FALSE, changed |-> FALSE, fresh |-> FALSE,
     client |-> << >>, rlimit |-> NoRateLimit, g |-> NoContext]

Event(ev, id, docs) == [ev |-> ev, id |-> id, docs |-> docs]

\* a document created outside the API: no updated, no created
OutsideDoc == [f \in {ID_FIELD, "name"} |-> IF f = ID_FIELD THEN 1 ELSE "a"]

Init ==
    /\ store = [i \in Ids |-> IF i = 1 THEN OutsideDoc ELSE NoDoc]
    /\ now = 1
    /\ cfg \in Configs
    /\ pc = [w \in Workers |-> "idle"]
    /\ req = [w \in Workers |-> IdleReq]
    /\ redis = << >>

\* worker w is the one worker of a deployment that serves its requests one
\* at a time
Alone(w) == w = 1 /\ \A v \in Workers \ {w} : pc[v] = "idle"

\* datetimes compared as instants, whatever their tzinfo
StripTz(doc) ==
    [f \in DOMAIN doc |->
       IF f \in {LAST_UPDATED, DATE_CREATED} \cup dates
       THEN replace_tzinfo_none(doc[f]) ELSE doc[f]]

\* ------------------------------------------------------------------- put
\* the If-Match values a client can hold for identity id
Tokens(id) ==
    {NoToken, BogusToken,
     document_etag(find_one(store, id, cfg.tz_aware)),
     document_etag(normalized(find_one(store, id, cfg.tz_aware)))}

\* a PUT request arrives at worker w; its body is read later, by payload()
StartPut(w) ==
    /\ pc[w] = "idle"
    /\ \E id \in Ids :
         \E if_match \in Tokens(id) :
           req' = [req EXCEPT ![w] =
                     [IdleReq EXCEPT !.op = "put", !.id = id,
                        !.if_match = if_match]]
    /\ pc' = [pc EXCEPT ![w] = "get_document"]
    /\ UNCHANGED <<store, now, cfg, redis>>

\* the handler going on after a failed etag comparison
PutGetDocument_noabort(w) ==
    /\ pc[w] = "get_document"
    /\ LET got == get_document(find_one(store, req[w].id, cfg.tz_aware),
                               req[w].if_match)
           status == IF got.status \notin {0, 412} THEN got.status
                     ELSE IF got.document = NoDoc THEN 404 ELSE 0
       IN /\ req' = [req EXCEPT ![w].original = got.document,
                                ![w].status = status]
          /\ pc' = [pc EXCEPT ![w] =
                      IF status = 0 THEN "put_validate" ELSE "done"]
    /\ UNCHANGED <<store, now, cfg, redis>>

\* put.py 41-44: original = get_document(...); abort(404) when missing
PutGetDocument(w) ==
    /\ pc[w] = "get_document"
    /\ LET got == get_document(find_one(store, req[w].id, cfg.tz_aware),
                               req[w].if_match)
           status == IF got.status # 0 THEN got.status
                     ELSE IF got.document = NoDoc THEN 404 ELSE 0
       IN /\ req' = [req EXCEPT ![w].original = got.document,
                                ![w].status = status]
          /\ pc' = [pc EXCEPT ![w] =
                      IF status = 0 THEN "put_validate" ELSE "done"]
    /\ UNCHANGED <<store, now, cfg, redis>>

\* the bodies payload() can return to the request: any unit, or for a
\* request sent again the unit it carried before
Bodies(w) ==
    IF req[w].payl = << >> THEN ReplaceUnits ELSE {req[w].payl[1]}

\* the handler firing the resource-specific callback first
PutValidate_swapped(w) ==
    /\ pc[w] = "put_validate"
    /\ \E unit \in Bodies(w) :
       LET v == validate_document(unit, "PUT", req[w].original, now, cfg)
           ok == Len(v.issues) = 0
           called == IF v.validated
                     THEN <<Event("validate_replace",
                                  req[w].original[ID_FIELD], << >>)>>
                     ELSE << >>
           notified == IF ok
                       THEN <<Event("on_insert_resource", 0, <<v.document>>),
                              Event("on_insert", 0, <<v.document>>)>>
                       ELSE << >>
       IN /\ req' = [req EXCEPT
                       ![w].payl = <<unit>>,
                       ![w].documents = <<v.document>>,
                       ![w].issues = <<v.issues>>,
                       ![w].log = @ \o called \o notified,
                       ![w].resp = IF ok THEN << >>
                                   ELSE <<failure_resp_item(v.issues)>>,
                       ![w].status = IF ok THEN 0 ELSE 200]
          /\ pc' = [pc EXCEPT ![w] = IF ok THEN "put_replace" ELSE "done"]
    /\ UNCHANGED <<store, now, cfg, redis>>

\* put.py 50-60: payload(), validate_document, then the on_insert callbacks
PutValidate(w) ==
    /\ pc[w] = "put_validate"
    /\ \E unit \in Bodies(w) :
       LET v == validate_document(unit, "PUT", req[w].original, now, cfg)
           ok == Len(v.issues) = 0
           called == IF v.validated
                     THEN <<Event("validate_replace",
                                  req[w].original[ID_FIELD], << >>)>>
                     ELSE << >>
           notified == IF ok
                       THEN <<Event("on_insert", 0, <<v.document>>),
                              Event("on_insert_resource", 0, <<v.document>>)>>
                       ELSE << >>
       IN /\ req' = [req EXCEPT
                       ![w].payl = <<unit>>,
                       ![w].documents = <<v.document>>,
                       ![w].issues = <<v.issues>>,
                       ![w].log = @ \o called \o notified,
                       ![w].resp = IF ok THEN << >>
                                   ELSE <<failure_resp_item(v.issues)>>,
                       ![w].status = IF ok THEN 0 ELSE 200]
          /\ pc' = [pc EXCEPT ![w] = IF ok THEN "put_replace" ELSE "done"]
    /\ UNCHANGED <<store, now, cfg, redis>>

\* the handler answering without the storage call
PutReplace_skip(w) ==
    /\ pc[w] = "put_replace"
    /\ pc' = [pc EXCEPT ![w] = "put_respond"]
    /\ UNCHANGED <<store, req, now, cfg, redis>>

\* put.py 63: app.data.replace(resource, object_id, document)
PutReplace(w) ==
    /\ pc[w] = "put_replace"
    /\ LET object_id == req[w].original[ID_FIELD]
       IN /\ store' = replace(store, object_id, req[w].documents[1])
          /\ req' = [req EXCEPT ![w].log =
                       Append(@, Event("replace", object_id,
                                       <<req[w].documents[1]>>))]
    /\ pc' = [pc EXCEPT ![w] = "put_respond"]
    /\ UNCHANGED <<now, cfg, redis>>

\* the success item carrying the etag of the document fetched before the
\* replace
PutRespond_cached(w) ==
    /\ pc[w] = "put_respond"
    /\ LET object_id == req[w].original[ID_FIELD]
           item == success_resp_item(object_id, req[w].documents[1],
                                     req[w].original)
       IN req' = [req EXCEPT ![w].resp = <<item>>, ![w].status = 200]
    /\ pc' = [pc EXCEPT ![w] = "done"]
    /\ UNCHANGED <<store, now, cfg, redis>>

\* put.py 65-73: the success item, its etag re-read from storage
PutRespond(w) ==
    /\ pc[w] = "put_respond"
    /\ LET object_id == req[w].original[ID_FIELD]
           item == success_resp_item(object_id, req[w].documents[1],
                                     find_one(store, object_id, cfg.tz_aware))
       IN req' = [req EXCEPT ![w].resp = <<item>>, ![w].status = 200]
    /\ pc' = [pc EXCEPT ![w] = "done"]
    /\ UNCHANGED <<store, now, cfg, redis>>

\* the client of a successful put sends the very same request again
ReplayPut(w) ==
    /\ pc[w] = "done"
    /\ req[w].op = "put" /\ req[w].status = 200
    /\ req[w].resp[1].status = STATUS_OK
    /\ req' = [req EXCEPT ![w] =
                 [IdleReq EXCEPT !.op = "put", !.id = req[w].id,
                    !.if_match = req[w].if_match, !.payl = req[w].payl,
                    !.replay = TRUE,
                    !.changed = StripTz(req[w].documents[1])
                                  # StripTz(req[w].original)]]
    /\ pc' = [pc EXCEPT ![w] = "get_document"]
    /\ UNCHANGED <<store, now, cfg, redis>>

\* the client of a success item edits that document next, presenting the
\* etag the item carried
FollowUpPut(w) ==
    /\ pc[w] = "done"
    /\ req[w].status = 200
    /\ \E k \in 1..Len(req[w].resp) :
         /\ req[w].resp[k].status = STATUS_OK
         /\ req' = [req EXCEPT ![w] =
                      [IdleReq EXCEPT !.op = "put", !.id = req[w].resp[k].id,
                         !.if_match = req[w].resp[k].etag,
                         !.fresh = TRUE]]
    /\ pc' = [pc EXCEPT ![w] = "get_document"]
    /\ UNCHANGED <<store, now, cfg, redis>>

\* the response leaves; the worker is free again
Return(w) ==
    /\ pc[w] = "done"
    /\ pc' = [pc EXCEPT ![w] = "idle"]
    /\ req' = [req EXCEPT ![w] = IdleReq]
    /\ UNCHANGED <<store, now, cfg, redis>>

\* a second passes; a request reads the clock once, in validate_document,
\* so the seconds that pass while it is served are taken before it starts
Tick ==
    /\ now < MaxTime
    /\ \A w \in Workers : pc[w] = "idle"
    /\ now' = now + 1
    /\ UNCHANGED <<store, cfg, pc, req, redis>>

\* ------------------------------------------------------------------ post
\* the keyed payloads of a bulk insert: position i is the i-th key
Batches == UNION {[1..n -> PayloadUnits] : n \in 0..MaxBatch}

\* every document forwarded, with or without issues
accepted_all(outcomes) ==
    [i \in 1..Len(outcomes) |-> outcomes[i].document]

RECURSIVE accepted(_)
\* post.py 106-111: the documents without issues, in payload order
accepted(outcomes) ==
    IF outcomes = << >> THEN << >>
    ELSE IF Len(Head(outcomes).issues) = 0
    THEN <<Head(outcomes).document>> \o accepted(Tail(outcomes))
    ELSE accepted(Tail(outcomes))

RECURSIVE validate_calls(_)
validate_calls(outcomes) ==
    IF outcomes = << >> THEN << >>
    ELSE IF Head(outcomes).validated
    THEN <<Event("validate", 0, << >>)>> \o validate_calls(Tail(outcomes))
    ELSE validate_calls(Tail(outcomes))

RECURSIVE response_items_lifo(_, _, _, _, _)
\* a success taking the last id and document left, as pop() does
response_items_lifo(issues, ids, documents, st, tz_aware) ==
    IF issues = << >> THEN << >>
    ELSE IF Len(Head(issues)) # 0
    THEN <<failure_resp_item(Head(issues))>>
         \o response_items_lifo(Tail(issues), ids, documents, st, tz_aware)
    ELSE <<success_resp_item(ids[Len(ids)], documents[Len(documents)],
                             find_one(st, ids[Len(ids)], tz_aware))>>
         \o response_items_lifo(Tail(issues),
                                SubSeq(ids, 1, Len(ids) - 1),
                                SubSeq(documents, 1, Len(documents) - 1),
                                st, tz_aware)

RECURSIVE response_items(_, _, _, _, _)
\* post.py 130-136: one item per key; a success pops the next id and document
response_items(issues, ids, documents, st, tz_aware) ==
    IF issues = << >> THEN << >>
    ELSE IF Len(Head(issues)) # 0
    THEN <<failure_resp_item(Head(issues))>>
         \o response_items(Tail(issues), ids, documents, st, tz_aware)
    ELSE <<success_resp_item(Head(ids), Head(documents),
                             find_one(st, Head(ids), tz_aware))>>
         \o response_items(Tail(issues), Tail(ids), Tail(documents),
                           st, tz_aware)

\* post.py 138-144: response_items[0], a (key, item) pair, in singular mode;
\* else the mapping of every key to its item
post_response(items, singular_inserts) ==
    IF singular_inserts
    THEN [shape |-> "pair", key |-> "item", items |-> <<items[1]>>]
    ELSE [shape |-> "mapping", key |-> "", items |-> items]

\* a POST request arrives at worker w; its body is read later, by payload()
StartPost(w) ==
    /\ pc[w] = "idle"
    /\ req' = [req EXCEPT ![w] = [IdleReq EXCEPT !.op = "post"]]
    /\ pc' = [pc EXCEPT ![w] = "post_validate"]
    /\ UNCHANGED <<store, now, cfg, redis>>

\* a payload in the shape of a keyed batch, taken as one document
KeyedUnit == [f \in {"k1"} |-> [g \in {"name"} |-> "a"]]

\* post.py 101-104: the values of payl_items for the payloads payload() can
\* return, the whole payload as the one value in singular mode; storage has
\* an identity left for every document that will be accepted
Payloads ==
    {payl \in IF cfg.singular_inserts
              THEN {<<u>> : u \in PayloadUnits \cup {KeyedUnit}}
              ELSE Batches :
       Cardinality({i \in 1..Len(payl) :
                      validate_document(payl[i], "POST", NoDoc, now,
                                        cfg).issues = << >>})
         <= Cardinality(FreeIds(store))}

\* the handler calling the callbacks and storage whatever was accepted
PostValidate_always(w) ==
    /\ pc[w] = "post_validate"
    /\ \E payl \in Payloads :
       LET outcomes == [i \in 1..Len(payl) |->
                          validate_document(payl[i], "POST", NoDoc, now, cfg)]
           documents == accepted(outcomes)
           issues == [i \in 1..Len(payl) |-> outcomes[i].issues]
           some == TRUE
           notified == IF some
                       THEN <<Event("on_insert", 0, documents),
                              Event("on_insert_resource", 0, documents)>>
                       ELSE << >>
           failed == response_items(issues, << >>, << >>, store,
                                    cfg.tz_aware)
       IN /\ req' = [req EXCEPT
                       ![w].payl = payl,
                       ![w].documents = documents,
                       ![w].issues = issues,
                       ![w].log = @ \o validate_calls(outcomes) \o notified,
                       ![w].resp = IF some THEN << >> ELSE failed,
                       ![w].response =
                           IF some THEN NoResponse
                           ELSE post_response(failed, cfg.singular_inserts),
                       ![w].status = IF some THEN 0 ELSE 200]
          /\ pc' = [pc EXCEPT ![w] = IF some THEN "post_insert" ELSE "done"]
    /\ UNCHANGED <<store, now, cfg, redis>>

\* the handler letting the exception of a malformed unit escape: the request
\* ends in a server error and nothing of the batch is notified or stored
PostValidate_aborting(w) ==
    /\ pc[w] = "post_validate"
    /\ \E payl \in Payloads :
       LET outcomes == [i \in 1..Len(payl) |->
                          validate_document(payl[i], "POST", NoDoc, now, cfg)]
           documents == accepted(outcomes)
           issues == [i \in 1..Len(payl) |-> outcomes[i].issues]
           escaped == \E i \in 1..Len(payl) : ~outcomes[i].validated
           some == Len(documents) # 0 /\ ~escaped
           notified == IF some
                       THEN <<Event("on_insert", 0, documents),
                              Event("on_insert_resource", 0, documents)>>
                       ELSE << >>
           failed == IF escaped THEN << >>
                     ELSE response_items(issues, << >>, << >>, store,
                                         cfg.tz_aware)
       IN /\ req' = [req EXCEPT
                       ![w].payl = payl,
                       ![w].documents = documents,
                       ![w].issues = issues,
                       ![w].log = @ \o validate_calls(outcomes) \o notified,
                       ![w].resp = IF some THEN << >> ELSE failed,
                       ![w].response =
                           IF some \/ escaped THEN NoResponse
                           ELSE post_response(failed, cfg.singular_inserts),
                       ![w].status = IF some THEN 0
                                     ELSE IF escaped THEN 500 ELSE 200]
          /\ pc' = [pc EXCEPT ![w] = IF some THEN "post_insert" ELSE "done"]
    /\ UNCHANGED <<store, now, cfg, redis>>

\* post.py 98-116: payload(), validate every unit, then the on_insert
\* callbacks
PostValidate(w) ==
    /\ pc[w] = "post_validate"
    /\ \E payl \in Payloads :
       LET outcomes == [i \in 1..Len(payl) |->
                          validate_document(payl[i], "POST", NoDoc, now, cfg)]
           documents == accepted(outcomes)
           issues == [i \in 1..Len(payl) |-> outcomes[i].issues]
           some == Len(documents) # 0
           notified == IF some
                       THEN <<Event("on_insert", 0, documents),
                              Event("on_insert_resource", 0, documents)>>
                       ELSE << >>
           failed == response_items(issues, << >>, << >>, store,
                                    cfg.tz_aware)
       IN /\ req' = [req EXCEPT
                       ![w].payl = payl,
                       ![w].documents = documents,
                       ![w].issues = issues,
                       ![w].log = @ \o validate_calls(outcomes) \o notified,
                       ![w].resp = IF some THEN << >> ELSE failed,
                       ![w].response =
                           IF some THEN NoResponse
                           ELSE post_response(failed, cfg.singular_inserts),
                       ![w].status = IF some THEN 0 ELSE 200]
          /\ pc' = [pc EXCEPT ![w] = IF some THEN "post_insert" ELSE "done"]
    /\ UNCHANGED <<store, now, cfg, redis>>

\* post.py 119: ids = app.data.insert(resource, documents)
PostInsert(w) ==
    /\ pc[w] = "post_insert"
    /\ store' = insert(store, req[w].documents)
    /\ req' = [req EXCEPT
                 ![w].ids = insert_ids(store, req[w].documents),
                 ![w].log = Append(@, Event("insert", 0, req[w].documents))]
    /\ pc' = [pc EXCEPT ![w] = "post_respond"]
    /\ UNCHANGED <<now, cfg, redis>>

\* post.py 122-144: the response, one item per key
PostRespond(w) ==
    /\ pc[w] = "post_respond"
    /\ LET items == response_items(req[w].issues, req[w].ids,
                                   req[w].documents, store, cfg.tz_aware)
       IN req' = [req EXCEPT
                    ![w].resp = items,
                    ![w].response = post_response(items, cfg.singular_inserts),
                    ![w].status = 200]
    /\ pc' = [pc EXCEPT ![w] = "done"]
    /\ UNCHANGED <<store, now, cfg, redis>>

\* ---------------------------------------------------------- specification
\* requests are served one at a time, each to completion
ServePut(w) == Alone(w) /\ StartPut(w)

ServePost(w) == Alone(w) /\ StartPost(w)

Next ==
    \/ \E w \in Workers : ServePut(w)
    \/ \E w \in Workers : PutGetDocument(w)
    \/ \E w \in Workers : PutValidate(w)
    \/ \E w \in Workers : PutReplace(w)
    \/ \E w \in Workers : PutRespond(w)
    \/ \E w \in Workers : ServePost(w)
    \/ \E w \in Workers : PostValidate(w)
    \/ \E w \in Workers : PostInsert(w)
    \/ \E w \in Workers : PostRespond(w)
    \/ \E w \in Workers : ReplayPut(w)
    \/ \E w \in Workers : FollowUpPut(w)
    \/ \E w \in Workers : Return(w)
    \/ Tick

Spec == Init /\ [][Next]_vars

\* the same requests against a storage driver returning naive datetimes
NaiveInit ==
    /\ store = [i \in Ids |-> IF i = 1 THEN OutsideDoc ELSE NoDoc]
    /\ now = 1
    /\ cfg \in {c \in Configs : ~c.tz_aware}
    /\ pc = [w \in Workers |-> "idle"]
    /\ req = [w \in Workers |-> IdleReq]
    /\ redis = << >>

NaiveSpec == NaiveInit /\ [][Next]_vars

\* ---------------------------------------------------- inserts on their own
\* a new collection, in a deployment of either insert mode
PostInit ==
    /\ store = [i \in Ids |-> NoDoc]
    /\ now = 1
    /\ cfg \in Deployments
    /\ pc = [w \in Workers |-> "idle"]
    /\ req = [w \in Workers |-> IdleReq]
    /\ redis = << >>

PostNext ==
    \/ \E w \in Workers : ServePost(w)
    \/ \E w \in Workers : PostValidate(w)
    \/ \E w \in Workers : PostInsert(w)
    \/ \E w \in Workers : PostRespond(w)
    \/ \E w \in Workers : Return(w)
    \/ Tick

PostSpec == PostInit /\ [][PostNext]_vars

\* --------------------------------------------------- replaces on their own
\* a collection holding the document created outside the API and at most one
\* document the API inserted earlier, at second 0, from one payload unit
PutInit ==
    /\ cfg \in Configs
    /\ now = 1
    /\ \E seed \in {<< >>} \cup {<<unit>> : unit \in PayloadUnits} :
         store = insert([i \in Ids |-> IF i = 1 THEN OutsideDoc ELSE NoDoc],
                        accepted([k \in 1..Len(seed) |->
                                    validate_document(seed[k], "POST", NoDoc,
                                                      0, cfg)]))
    /\ pc = [w \in Workers |-> "idle"]
    /\ req = [w \in Workers |-> IdleReq]
    /\ redis = << >>

PutNext ==
    \/ \E w \in Workers : ServePut(w)
    \/ \E w \in Workers : PutGetDocument(w)
    \/ \E w \in Workers : PutValidate(w)
    \/ \E w \in Workers : PutReplace(w)
    \/ \E w \in Workers : PutRespond(w)
    \/ \E w \in Workers : ReplayPut(w)
    \/ \E w \in Workers : FollowUpPut(w)
    \/ \E w \in Workers : Return(w)
    \/ Tick

PutSpec == PutInit /\ [][PutNext]_vars

\* ---------------------------------------------------------- rate limiting
\* RateLimit.expiration_window
expiration_window == 10

Digits == <<"0", "1", "2", "3", "4", "5", "6", "7", "8", "9">>

RECURSIVE str(_)
\* str(n) of an integer n >= 0: its decimal digits, a sequence of characters
str(n) ==
    IF n < 10 THEN <<Digits[n + 1]>>
    ELSE str(n \div 10) \o <<Digits[(n % 10) + 1]>>

\* request.remote_addr of the clients, character by character
Clients == {<<":", ":", "1">>, <<":", ":", "1", "1">>}

\* 'rate-limit/%s' % (username or remote address)
key_prefix(client) == <<"rate-limit/">> \o client

Min(a, b) == IF a <= b THEN a ELSE b

\* the store has the key at server time t: it was set and has not expired
\* (expireat 0: the key has no expiry)
exists(r, key, t) ==
    key \in DOMAIN r /\ (r[key].expireat = 0 \/ r[key].expireat > t)

\* INCR: a missing key counts from 0 and has no expiry
incr(r, key, t) ==
    [k \in DOMAIN r \cup {key} |->
       IF k # key THEN r[k]
       ELSE IF exists(r, key, t) THEN [r[k] EXCEPT !.count = @ + 1]
       ELSE [count |-> 1, expireat |-> 0]]

\* EXPIREAT with a time still to come
expireat(r, key, when) ==
    IF key \in DOMAIN r THEN [r EXCEPT ![key].expireat = when] ELSE r

\* the pipeline leaving the expiry out
RateLimit_execute_incr(r, key, reset, t) == incr(r, key, t)

\* RateLimit.__init__, common.py 160-163: the store after p.execute() applied
\* incr and expireat as one transaction
RateLimit_execute(r, key, reset, t) ==
    expireat(incr(r, key, t), key, reset + expiration_window)

\* the instance counting without the cap
RateLimit_uncapped(r, prefix, limit, period, t) ==
    LET reset == (t \div period) * period + period
        key == prefix \o str(reset)
    IN [key |-> key, reset |-> reset, limit |-> limit, period |-> period,
        current |-> RateLimit_execute(r, key, reset, t)[key].count]

\* RateLimit.__init__: the instance built at time t against store r
RateLimit(r, prefix, limit, period, t) ==
    LET reset == (t \div period) * period + period
        key == prefix \o str(reset)
    IN [key |-> key, reset |-> reset, limit |-> limit, period |-> period,
        current |-> Min(RateLimit_execute(r, key, reset, t)[key].count,
                        limit + 1)]

remaining(x) == x.limit - x.current

\* a limiter that lets the first request over the limit through
over_limit_loose(x) == x.current > x.limit + 1

over_limit(x) == x.current > x.limit

\* getattr(g, '_rate_limit', None)
get_rate_limit(g) == IF g.has THEN g.rate_limit ELSE NoRateLimit

\* the first step of the handler f that rate_limited wraps
HandlerStart(method) ==
    IF method = "PUT" THEN "get_document" ELSE "post_validate"

\* rate_limited counting whether or not app.redis is there
ratelimit_noredis(w, method, request) ==
    LET method_limit == cfg.RATE_LIMIT[method]
        rlimit == RateLimit(redis, key_prefix(request.client),
                            method_limit[1], method_limit[2], now)
    IN IF method_limit # NoLimit
       THEN /\ redis' = RateLimit_execute(redis, rlimit.key, rlimit.reset, now)
            /\ IF over_limit(rlimit)
               THEN /\ req' = [req EXCEPT ![w] =
                                 [request EXCEPT !.rlimit = rlimit,
                                                 !.status = 429]]
                    /\ pc' = [pc EXCEPT ![w] = "done"]
               ELSE /\ req' = [req EXCEPT ![w] =
                                 [request EXCEPT
                                    !.rlimit = rlimit,
                                    !.g = [has |-> TRUE,
                                           rate_limit |-> rlimit]]]
                    /\ pc' = [pc EXCEPT ![w] = HandlerStart(method)]
       ELSE /\ redis' = redis
            /\ req' = [req EXCEPT ![w] =
                         [request EXCEPT
                            !.g = [has |-> TRUE, rate_limit |-> NoRateLimit]]]
            /\ pc' = [pc EXCEPT ![w] = HandlerStart(method)]

\* rate_limited, common.py 194-212, for the request arriving at worker w:
\* count it when the method has a limit and app.redis is there; answer 429
\* when over the limit, else set g._rate_limit and call the handler
ratelimit(w, method, request) ==
    LET method_limit == cfg.RATE_LIMIT[method]
        rlimit == RateLimit(redis, key_prefix(request.client),
                            method_limit[1], method_limit[2], now)
    IN IF method_limit # NoLimit /\ cfg.redis
       THEN /\ redis' = RateLimit_execute(redis, rlimit.key, rlimit.reset, now)
            /\ IF over_limit(rlimit)
               THEN /\ req' = [req EXCEPT ![w] =
                                 [request EXCEPT !.rlimit = rlimit,
                                                 !.status = 429]]
                    /\ pc' = [pc EXCEPT ![w] = "done"]
               ELSE /\ req' = [req EXCEPT ![w] =
                                 [request EXCEPT
                                    !.rlimit = rlimit,
                                    !.g = [has |-> TRUE,
                                           rate_limit |-> rlimit]]]
                    /\ pc' = [pc EXCEPT ![w] = HandlerStart(method)]
       ELSE /\ redis' = redis
            /\ req' = [req EXCEPT ![w] =
                         [request EXCEPT
                            !.g = [has |-> TRUE, rate_limit |-> NoRateLimit]]]
            /\ pc' = [pc EXCEPT ![w] = HandlerStart(method)]

\* what the counter of the client's current window shows
Counted(client, method) ==
    LET method_limit == cfg.RATE_LIMIT[method]
        key == key_prefix(client)
                 \o str((now \div method_limit[2]) * method_limit[2]
                        + method_limit[2])
    IN IF method_limit # NoLimit /\ key \in DOMAIN redis
       THEN redis[key].count ELSE 0

\* a PUT request of some client arrives at worker w, behind @ratelimit()
rate_limited_put(w) ==
    /\ pc[w] = "idle"
    /\ \E client \in Clients, id \in Ids :
         \E if_match \in Tokens(id) :
           /\ Counted(client, "PUT") < MaxCount
           /\ ratelimit(w, "PUT",
                        [IdleReq EXCEPT !.op = "put", !.id = id,
                           !.if_match = if_match, !.client = client])
    /\ UNCHANGED <<store, now, cfg>>

\* a POST request of some client arrives at worker w, behind @ratelimit()
rate_limited_post(w) ==
    /\ pc[w] = "idle"
    /\ \E client \in Clients :
         /\ Counted(client, "POST") < MaxCount
         /\ ratelimit(w, "POST",
                      [IdleReq EXCEPT !.op = "post", !.client = client])
    /\ UNCHANGED <<store, now, cfg>>

\* the deployments of the rate limiter, taking one document per insert: per
\* method no limit or one request every two seconds, with or without
\* app.redis
Limits == {NoLimit, <<1, 2>>}

LimitConfigs ==
    [auth_field : {FALSE}, auth : {"anon"}, tz_aware : {FALSE},
     singular_inserts : {TRUE}, RATE_LIMIT : [Methods -> Limits],
     redis : BOOLEAN]

\* a new collection and no counter yet
LimitInit ==
    /\ store = [i \in Ids |-> NoDoc]
    /\ now = 1
    /\ cfg \in LimitConfigs
    /\ pc = [w \in Workers |-> "idle"]
    /\ req = [w \in Workers |-> IdleReq]
    /\ redis = << >>

\* inserts are served one at a time, each behind the limiter
LimitedPost(w) == Alone(w) /\ rate_limited_post(w)

LimitNext ==
    \/ \E w \in Workers : LimitedPost(w)
    \/ \E w \in Workers : PostValidate(w)
    \/ \E w \in Workers : PostInsert(w)
    \/ \E w \in Workers : PostRespond(w)
    \/ \E w \in Workers : Return(w)
    \/ Tick

LimitSpec == LimitInit /\ [][LimitNext]_vars

\* ------------------------------------------------- concurrent replaces
\* a deployment limiting every client to one replace every two seconds
ConcConfigs ==
    [auth_field : {FALSE}, auth : {"anon"}, tz_aware : {FALSE},
     singular_inserts : {FALSE},
     RATE_LIMIT : {[m \in Methods |-> IF m = "PUT" THEN <<1, 2>> ELSE NoLimit]},
     redis : {TRUE}]

ConcInit ==
    /\ store = [i \in Ids |-> IF i = 1 THEN OutsideDoc ELSE NoDoc]
    /\ now = 1
    /\ cfg \in ConcConfigs
    /\ pc = [w \in Workers |-> "idle"]
    /\ req = [w \in Workers |-> IdleReq]
    /\ redis = << >>

\* every worker takes one request, at any moment; the workers' steps
\* interleave
ConcNext ==
    \/ \E w \in Workers : rate_limited_put(w)
    \/ \E w \in Workers : PutGetDocument(w)
    \/ \E w \in Workers : PutValidate(w)
    \/ \E w \in Workers : PutReplace(w)
    \/ \E w \in Workers : PutRespond(w)
    \/ Tick

ConcSpec == ConcInit /\ [][ConcNext]_vars

\* time.time() moving on, at any moment of any request
Elapse ==
    /\ now < MaxTime
    /\ now' = now + 1
    /\ UNCHANGED <<store, cfg, pc, req, redis>>

\* a deployment taking one document per insert, one insert per client and
\* window of two seconds
WindowConfigs ==
    [auth_field : {FALSE}, auth : {"anon"}, tz_aware : {FALSE},
     singular_inserts : {TRUE},
     RATE_LIMIT : {[m \in Methods |-> IF m = "POST" THEN <<1, 2>> ELSE NoLimit]},
     redis : {TRUE}]

WindowInit ==
    /\ store = [i \in Ids |-> NoDoc]
    /\ now = 1
    /\ cfg \in WindowConfigs
    /\ pc = [w \in Workers |-> "idle"]
    /\ req = [w \in Workers |-> IdleReq]
    /\ redis = << >>

\* every worker takes one insert, at any moment, with the clock running
\* while they serve: the requests arrive in one window or in different ones
WindowNext ==
    \/ \E w \in Workers : rate_limited_post(w)
    \/ \E w \in Workers : PostValidate(w)
    \/ \E w \in Workers : PostInsert(w)
    \/ \E w \in Workers : PostRespond(w)
    \/ Elapse

WindowSpec == WindowInit /\ [][WindowNext]_vars

\* ================================================================ claims
PutOf(w) == req[w].op = "put"
PostOf(w) == req[w].op = "post"
GuardFailures == {403, 404, 412}

\* what find_one returns for the request's identity in the current state
Current(w) == find_one(store, req[w].id, cfg.tz_aware)

\* the outcome validate_document gives the request's i-th payload unit
Outcome(w, i) ==
    validate_document(req[w].payl[i],
                      IF PutOf(w) THEN "PUT" ELSE "POST",
                      IF PutOf(w) THEN req[w].original ELSE NoDoc, now, cfg)

EventsOf(w, names) == SelectSeq(req[w].log, LAMBDA e : e.ev \in names)

\* the request has not written to storage (so Current(w) is what it fetched)
NoWriteBy(w) == EventsOf(w, {"replace", "insert"}) = << >>

\* ---------------------------------------------------------------------
\* C1: a put of an existing document presenting a token different from the
\* fingerprint of the stored document, as get_document fetches and
\* normalizes it, ends with 412 PreconditionFailed; no put gets past the
\* guard with such a token.
C1_StaleTokenFails ==
    \A w \in Workers :
      PutOf(w) /\ pc[w] # "get_document" =>
        /\ ( /\ NoWriteBy(w)
             /\ Current(w) # NoDoc
             /\ req[w].if_match # NoToken
             /\ req[w].if_match # document_etag(normalized(Current(w))) )
           => (pc[w] = "done" /\ req[w].status = 412)
        /\ ~NoWriteBy(w) => req[w].if_match = document_etag(req[w].original)

C1_Witness ==
    \E w \in Workers :
      /\ PutOf(w) /\ pc[w] = "done" /\ req[w].status = 412
      /\ req[w].if_match = BogusToken

\* ---------------------------------------------------------------------
\* C2: a put of an existing document that carries no token ends with the
\* "an etag must be provided" error (abort 403) before the body is read, the
\* document normalized or its fingerprint compared.
C2_NoTokenFails ==
    \A w \in Workers :
      ( /\ PutOf(w) /\ pc[w] # "get_document"
        /\ req[w].if_match = NoToken
        /\ Current(w) # NoDoc )
      => /\ pc[w] = "done" /\ req[w].status = 403
         /\ req[w].log = << >> /\ req[w].documents = << >>
         /\ req[w].payl = << >>
         /\ req[w].original = Current(w)

C2_Witness ==
    \E w \in Workers :
      /\ PutOf(w) /\ pc[w] = "done" /\ req[w].status = 403
      /\ Current(w) # normalized(Current(w))

Failing(w) ==
    {i \in 1..Len(req[w].payl) : Outcome(w, i).issues # << >>}

ItemsWith(w, status) ==
    {k \in 1..Len(req[w].resp) : req[w].resp[k].status = status}

C5_Original ==
    \A w \in Workers :
      /\ ( /\ PutOf(w) /\ pc[w] = "done" /\ req[w].status = 200
           /\ req[w].resp[1].status = STATUS_OK )
         => req[w].resp[1].etag # req[w].if_match
      /\ ( /\ PutOf(w) /\ req[w].replay /\ pc[w] # "get_document" )
         => (pc[w] = "done" /\ req[w].status = 412)

\* the replacement as stamped differs from the original in some field value
Changed(w) == StripTz(req[w].documents[1]) # StripTz(req[w].original)

\* C5 (amended): after a successful put presented with the current etag, if
\* the replacement as stamped (payload, injected defaults and owner, new
\* updated_at, carried id and created_at) differs from the original in some
\* field value, the success item's etag differs from the etag presented and
\* the same put sent again with the old etag fails with 412.
C5_NewEtag ==
    \A w \in Workers :
      /\ ( /\ PutOf(w) /\ pc[w] = "done" /\ req[w].status = 200
           /\ req[w].resp[1].status = STATUS_OK
           /\ Changed(w) )
         => req[w].resp[1].etag # req[w].if_match
      /\ ( /\ PutOf(w) /\ req[w].replay /\ req[w].changed
           /\ pc[w] # "get_document" )
         => (pc[w] = "done" /\ req[w].status = 412)

C5_Witness ==
    \E w \in Workers :
      /\ PutOf(w) /\ req[w].replay /\ req[w].changed
      /\ pc[w] = "done" /\ req[w].status = 412

\* ---------------------------------------------------------------------
\* the payload of a put omits a field with a declared default, and parse
\* did not raise
OmitsDefault(w) ==
    /\ PutOf(w) /\ Len(req[w].documents) = 1
    /\ defaults \ DOMAIN req[w].payl[1] # {}
    /\ ~parse(req[w].payl[1], "PUT").raised

\* C6 as stated: on a put the omitted default field is still absent from the
\* document handed to the validator and to storage.
C6_Original ==
    \A w \in Workers :
      OmitsDefault(w) =>
        \A f \in defaults \ DOMAIN req[w].payl[1] :
          f \notin DOMAIN req[w].documents[1]

\* C6 (amended): schema defaults are injected for the fields a payload omits
\* on insert (post) and also on replace (put): after parsing a replace
\* payload, a field with a declared default that the payload omits is present
\* with its default value in the document handed to the validator and to
\* storage.
C6_DefaultsInjected ==
    \A w \in Workers :
      /\ OmitsDefault(w) =>
           /\ \A f \in defaults \ DOMAIN req[w].payl[1] :
                /\ f \in DOMAIN req[w].documents[1]
                /\ req[w].documents[1][f] = schema_default[f]
           /\ \A k \in 1..Len(req[w].log) : \A d \in 1..Len(req[w].log[k].docs) :
                \A f \in defaults : f \in DOMAIN req[w].log[k].docs[d]
      /\ PostOf(w) =>
           \A k \in 1..Len(req[w].log) : \A d \in 1..Len(req[w].log[k].docs) :
             \A f \in defaults : f \in DOMAIN req[w].log[k].docs[d]

C6_Witness ==
    \E w \in Workers :
      /\ OmitsDefault(w) /\ pc[w] = "done"
      /\ EventsOf(w, {"replace"}) # << >>
      /\ store[req[w].id]["status"] = "active"

\* ---------------------------------------------------------------------
\* the guard let the request through: the document existed and the token
\* presented was its fingerprint
GuardPassed(w) ==
    /\ req[w].original # NoDoc
    /\ req[w].if_match # NoToken
    /\ req[w].if_match = document_etag(req[w].original)

\* C7: a put whose guard fails (404, 403 or 412) aborts at once: while the
\* request is answered that way the validator has not been invoked, no
\* on_insert notification has fired, no storage insert/replace call was made
\* and storage is unchanged; and a put shows a validator, notification or
\* storage call only after its guard passed.
C7_GuardFailureAborts ==
    [][\A w \in Workers :
         /\ ( /\ req'[w].op = "put" /\ pc'[w] = "done"
              /\ req'[w].status \in GuardFailures )
            => /\ store' = store
               /\ req'[w].log = << >>
               /\ req'[w].documents = << >>
         /\ ( /\ req'[w].op = "put"
              /\ (req'[w].log # << >> \/ req'[w].documents # << >>) )
            => GuardPassed(w)']_vars

C7_Witness ==
    \E w \in Workers :
      /\ PutOf(w) /\ pc[w] = "done" /\ req[w].status = 404
      /\ req[w].log = << >>

\* ---------------------------------------------------------------------
\* every unit of the batch fails validation
AllFail(w) == PostOf(w) /\ Failing(w) = 1..Len(req[w].payl)

\* C8: when validation fails for every document of an insert batch, no
\* storage call is made and neither on_insert notification fires: through
\* the whole request storage stays as it was.
C8_AllInvalidNoOp ==
    [][\A w \in Workers :
         AllFail(w)' =>
           /\ store' = store
           /\ \A k \in 1..Len(req'[w].log) : req'[w].log[k].ev = "validate"
           /\ pc'[w] \in {"post_validate", "done"}]_vars

C8_Witness ==
    \E w \in Workers :
      /\ AllFail(w) /\ pc[w] = "done" /\ Len(req[w].payl) = 2
      /\ req[w].status = 200

\* ---------------------------------------------------------------------
\* the document carries the metadata validate_document stamps
Stamped(document) ==
    LAST_UPDATED \in DOMAIN document \/ DATE_CREATED \in DOMAIN document

\* C9 as stated: validate_document returns either a stamped document with an
\* empty issue list or a non-empty issue list with an unstamped document,
\* never a stamped document together with issues.
C9_Original ==
    \A w \in Workers :
      PutOf(w) /\ Len(req[w].documents) = 1 =>
        \/ req[w].issues[1] = << >> /\ Stamped(req[w].documents[1])
        \/ req[w].issues[1] # << >> /\ ~Stamped(req[w].documents[1])

\* ---------------------------------------------------------------------
\* C10 as stated: the etag of a success item, presented as the token of the
\* next replace of that document with no write in between, passes the guard.
C10_Original ==
    \A w \in Workers :
      PutOf(w) /\ req[w].fresh /\ pc[w] # "get_document" =>
        req[w].status \notin GuardFailures

\* ---------------------------------------------------------------------
\* the number of units up to position k that validate_document accepts
Rank(w, k) == Cardinality((1..k) \ Failing(w))

OneDocument(w) ==
    /\ Len(req[w].payl) = 1 /\ Len(req[w].issues) = 1
    /\ Len(EventsOf(w, {"validate"})) <= 1
    /\ req[w].issues[1] = Outcome(w, 1).issues
    /\ Len(req[w].response.items) = 1
    /\ req[w].response.items[1].status =
         (IF 1 \in Failing(w) THEN STATUS_ERR ELSE STATUS_OK)

\* C12 as stated: in singular mode the whole payload is treated as one
\* document whatever its shape, and the response body of post is that
\* document's item itself, neither a mapping of keys nor a key/item pair.
C12_Original ==
    \A w \in Workers :
      PostOf(w) /\ pc[w] = "done" /\ cfg.singular_inserts =>
        /\ OneDocument(w)
        /\ req[w].response.shape = "item"

\* ---------------------------------------------------------------------
\* the limiter counted the request worker w holds
Evaluated(w) == req[w].rlimit # NoRateLimit

\* what the window counter of that request shows; while requests are served
\* one at a time it is the count after the request's own increment
CountOf(w) == redis[req[w].rlimit.key].count

\* C13 as stated: current is the count of the window counter after the
\* request's increment, remaining = limit - current falls with every
\* further request of the window, over_limit is current > limit.
C13_Original ==
    \A w \in Workers :
      Evaluated(w) =>
        /\ req[w].rlimit.current = CountOf(w)
        /\ remaining(req[w].rlimit) = req[w].rlimit.limit - CountOf(w)
        /\ over_limit(req[w].rlimit) <=> CountOf(w) > req[w].rlimit.limit

\* C13 (amended): the state reported for a request has remaining = limit -
\* current and over_limit = current > limit, where current is the count of
\* the window counter after the request's increment capped at limit + 1: so
\* remaining is limit - count up to count = limit + 1 and stays at -1, its
\* lowest value, for every further request of the window; over_limit is true
\* exactly when the count after the increment exceeds limit.
C13_Remaining ==
    \A w \in Workers :
      Evaluated(w) =>
        /\ CountOf(w) >= 1
        /\ req[w].rlimit.current
             = Min(CountOf(w), req[w].rlimit.limit + 1)
        /\ remaining(req[w].rlimit)
             = req[w].rlimit.limit - req[w].rlimit.current
        /\ remaining(req[w].rlimit) >= -1
        /\ CountOf(w) <= req[w].rlimit.limit + 1 =>
             remaining(req[w].rlimit) = req[w].rlimit.limit - CountOf(w)
        /\ over_limit(req[w].rlimit) <=> CountOf(w) > req[w].rlimit.limit
        /\ req[w].rlimit.limit = cfg.RATE_LIMIT["POST"][1]
        /\ req[w].rlimit.period = cfg.RATE_LIMIT["POST"][2]

C13_Witness ==
    \E w \in Workers :
      /\ Evaluated(w) /\ pc[w] = "done"
      /\ CountOf(w) = req[w].rlimit.limit + 2
      /\ remaining(req[w].rlimit) = -1

\* ---------------------------------------------------------------------
MethodOf(r) == IF r.op = "put" THEN "PUT" ELSE "POST"

\* the deployment has no limit for the method, or no shared store
NoOp(method) == cfg.RATE_LIMIT[method] = NoLimit \/ ~cfg.redis

\* C14: when no limit is configured for the method of a request, or no
\* shared store is available, the rate limiter does nothing: the step that
\* takes the request in leaves the counter store as it was, attaches no
\* state (get_rate_limit gives None) and hands the request to the wrapped
\* handler; a deployment where that holds for every method never has a
\* counter.
C14_NoOp ==
    [][/\ \A w \in Workers :
            ( /\ pc[w] = "idle" /\ pc'[w] # "idle"
              /\ NoOp(MethodOf(req'[w])) )
            => /\ redis' = redis
               /\ req'[w].rlimit = NoRateLimit
               /\ get_rate_limit(req'[w].g) = NoRateLimit
               /\ pc'[w] = HandlerStart(MethodOf(req'[w]))
               /\ req'[w].status = 0
               /\ req'[w].log = << >>
       /\ (\A m \in Methods : NoOp(m)) => redis' = << >>]_vars

C14_Witness ==
    \E w \in Workers :
      /\ PostOf(w) /\ pc[w] = "done" /\ req[w].status = 200
      /\ cfg.RATE_LIMIT["POST"] # NoLimit /\ ~cfg.redis
      /\ req[w].g.has /\ get_rate_limit(req[w].g) = NoRateLimit
      /\ EventsOf(w, {"insert"}) # << >>
      /\ redis = << >>

\* ---------------------------------------------------------------------
\* the end of the window of period seconds that second t falls in
WindowEnd(t, period) == (t \div period) * period + period

\* the requests in hand that were counted under key k
CountedUnder(k) == {w \in Workers : Evaluated(w) /\ req[w].rlimit.key = k}

\* C15: however the workers interleave, the limiter's increment and expiry
\* reach the store as one step: every counter key of the store has an expiry,
\* the expiry is the end of the window the key was counted in plus 10
\* seconds, window_end = floor(now / period) * period + period, and the
\* counter shows every request counted under the key.
C15_AtomicExpiry ==
    \A k \in DOMAIN redis :
      /\ redis[k].count >= 1
      /\ redis[k].expireat # 0
      /\ \E client \in Clients, t \in 1..now, m \in Methods :
           /\ cfg.RATE_LIMIT[m] # NoLimit
           /\ k = key_prefix(client)
                    \o str(WindowEnd(t, cfg.RATE_LIMIT[m][2]))
           /\ redis[k].expireat = WindowEnd(t, cfg.RATE_LIMIT[m][2]) + 10
      /\ redis[k].count = Cardinality(CountedUnder(k))
      /\ \A w \in CountedUnder(k) :
           redis[k].expireat = WindowEnd(now, req[w].rlimit.period) + 10

C15_Witness ==
    \E v, w \in Workers :
      /\ v # w /\ pc[v] = "done" /\ req[v].status = 429
      /\ pc[w] \in {"put_validate", "put_replace"}
      /\ req[v].rlimit.key = req[w].rlimit.key
      /\ redis[req[v].rlimit.key] = [count |-> 2, expireat |-> 14]
      /\ now = 2

\* ---------------------------------------------------------------------
\* C16: every storage insert or replace call of a request comes right after
\* the two notifications of that request, first the resource-wide on_insert,
\* then the resource-specific on_insert_<resource>, both with the documents
\* the storage call is made with; a request makes no storage call without
\* them, and fires the notifications in no other order.
C16_NotifiedBeforeStorage ==
    \A w \in Workers :
      \A k \in 1..Len(req[w].log) :
        LET e == req[w].log[k]
        IN /\ e.ev \in {"insert", "replace"} =>
                /\ k >= 3
                /\ e.docs # << >>
                /\ req[w].log[k - 2] = Event("on_insert", 0, e.docs)
                /\ req[w].log[k - 1] = Event("on_insert_resource", 0, e.docs)
           /\ e.ev = "on_insert_resource" =>
                /\ k >= 2
                /\ req[w].log[k - 1] = Event("on_insert", 0, e.docs)
           /\ e.ev = "on_insert" =>
                /\ pc[w] \in {"put_replace", "post_insert"} =>
                     k = Len(req[w].log) - 1
                /\ pc[w] \notin {"put_replace", "post_insert"} =>
                     /\ k + 2 <= Len(req[w].log)
                     /\ req[w].log[k + 2].ev \in {"insert", "replace"}

C16_Witness ==
    \E w \in Workers :
      /\ PostOf(w) /\ pc[w] = "done"
      /\ Len(req[w].payl) = 2 /\ Cardinality(Failing(w)) = 1
      /\ Len(req[w].log) = 5
      /\ req[w].log[3].ev = "on_insert"
      /\ req[w].log[4].ev = "on_insert_resource"
      /\ req[w].log[5] = Event("insert", 0, req[w].documents)

\* ---------------------------------------------------------------------
\* the put of worker w made its storage replace call
Replaced(w) == PutOf(w) /\ EventsOf(w, {"replace"}) # << >>

\* C17: identity and creation time outlive every replace: the document a
\* successful replace leaves in storage has the id and created_at of the
\* original the request fetched, created_at being the Unix epoch when the
\* stored original had none, whatever id and created_at the payload carries,
\* and its updated_at is the current time in whole seconds; so after any
\* sequence of replaces a document still has the id it is stored under, and
\* one that came without created_at has the epoch.
C17_IdentityAndCreation ==
    /\ \A w \in Workers :
         Replaced(w) =>
           LET doc == store[req[w].id]
           IN /\ doc[ID_FIELD] = req[w].id
              /\ doc[ID_FIELD] = req[w].original[ID_FIELD]
              /\ DATE_CREATED \in DOMAIN doc
              /\ replace_tzinfo_none(doc[DATE_CREATED])
                   = replace_tzinfo_none(req[w].original[DATE_CREATED])
              /\ doc[LAST_UPDATED] = datetime(now)
    /\ \A w \in Workers :
         PutOf(w) /\ pc[w] \in {"put_validate", "put_replace"} =>
           /\ req[w].original[ID_FIELD] = Current(w)[ID_FIELD]
           /\ req[w].original[DATE_CREATED] = date_created(Current(w))
    /\ \A i \in Ids :
         store[i] # NoDoc => store[i][ID_FIELD] = i
    /\ DATE_CREATED \in DOMAIN store[1] =>
         replace_tzinfo_none(store[1][DATE_CREATED]) = epoch

C17_Witness ==
    \E w \in Workers :
      /\ Replaced(w) /\ req[w].fresh /\ pc[w] = "done"
      /\ req[w].id = 1 /\ now = MaxTime
      /\ ID_FIELD \in DOMAIN req[w].payl[1]
      /\ req[w].payl[1][ID_FIELD] # 1
      /\ req[w].payl[1][DATE_CREATED] = "d9"
      /\ store[1][DATE_CREATED] = epoch
      /\ store[1][LAST_UPDATED] = datetime(MaxTime)

\* ---------------------------------------------------------------------
\* the token of worker w's put is not the fingerprint of the document as the
\* worker's own fetch finds it
StaleAtFetch(w) ==
    /\ PutOf(w) /\ pc[w] = "get_document"
    /\ Current(w) # NoDoc
    /\ req[w].if_match # document_etag(normalized(Current(w)))

\* C18: the guard checks each worker's token against the document as that
\* worker fetches it and no later: a worker whose token is stale at its own
\* fetch is answered 403 or 412 by that step and never calls storage replace,
\* and every replace call is made by a worker whose token matched the
\* document it fetched; two workers that fetch the same document with the
\* same valid token before either replaces both pass and both replace, the
\* later call overwriting the earlier (the witness).
C18_StaleNeverReplaces ==
    [][\A w \in Workers :
         /\ (StaleAtFetch(w) /\ pc'[w] # "get_document") =>
              /\ pc'[w] = "done"
              /\ req'[w].status \in {403, 412}
              /\ req'[w].log = << >>
         /\ (pc[w] = "done" /\ req[w].status \in GuardFailures) =>
              (pc'[w] = "done" /\ req'[w] = req[w])
         /\ req'[w].op = "put" /\ EventsOf(w, {"replace"})' # << >> =>
              /\ GuardPassed(w)'
              /\ req'[w].status \notin GuardFailures]_vars

C18_Witness ==
    \E v, w \in Workers :
      /\ v # w /\ PutOf(v) /\ PutOf(w)
      /\ req[v].id = req[w].id /\ req[v].if_match = req[w].if_match
      /\ req[v].original = req[w].original
      /\ pc[v] = "done" /\ pc[w] = "done"
      /\ req[v].status = 200 /\ req[w].status = 200
      /\ req[v].resp[1].status = STATUS_OK /\ req[w].resp[1].status = STATUS_OK
      /\ Replaced(v) /\ Replaced(w)
      /\ req[v].documents[1] # req[w].documents[1]
      /\ store[req[w].id] = req[w].documents[1]
      /\ req[v].resp[1].etag = document_etag(req[v].documents[1])

\* ---------------------------------------------------------------------
\* C19 as stated: when the method has a limit and the shared store is there,
\* the state the limiter computed for a request (count, limit, period, reset
\* time) is attached to the request context and get_rate_limit returns it,
\* for a request that was admitted and for one found over the limit alike.
C19_Original ==
    \A w \in Workers :
      req[w].op # "none" /\ ~NoOp(MethodOf(req[w])) =>
        /\ Evaluated(w)
        /\ get_rate_limit(req[w].g) = req[w].rlimit

\* ---------------------------------------------------------------------
\* a unit whose decoding or date coercion raises: it has no keys(), or one
\* of its date fields is no date
Malformed(unit) ==
    \/ ~is_mapping(unit)
    \/ \E f \in dates \cap DOMAIN unit : str_to_date_raises(unit[f])

\* a unit that decodes and that the validator rejects
Invalid(unit) ==
    /\ ~Malformed(unit)
    /\ validator_errors(parse(unit, "POST").document) # << >>

\* the positions of the batch of worker w holding such a unit
Troubled(w) ==
    {i \in 1..Len(req[w].payl) :
       Malformed(req[w].payl[i]) \/ Invalid(req[w].payl[i])}

Arrives(w) == req[w].op = "none" /\ req'[w].op # "none"

\* nothing of the handler ran for request r: no payload read, no document
\* fetched, no validation, no notification, no storage call, no response item
HandlerUntouched(r) ==
    /\ r.payl = << >> /\ r.original = NoDoc /\ r.documents = << >>
    /\ r.issues = << >> /\ r.ids = << >> /\ r.resp = << >>
    /\ r.log = << >>

\* the requests counted under key k that went on to the handler
AdmittedUnder(k) == {w \in CountedUnder(k) : req[w].status # 429}

\* C21: however the workers interleave and whenever the clock moves, a
\* request is counted under the key of its client and of the window of its
\* arrival, window_end = floor(now / period) * period + period, the same key
\* as every earlier request of that client in that window; its increment
\* raises that counter by one and no other; when the count it gets is above
\* the limit it is answered 429 with nothing of the handler run and storage
\* as it was, and it stays so, else it goes on to the handler; so under every
\* key at most limit requests are admitted, while the counter shows every
\* request counted under it, the rejected ones included.
C21_WindowQuota ==
    [][/\ \A w \in Workers :
            Arrives(w) =>
              LET method_limit == cfg.RATE_LIMIT[MethodOf(req'[w])]
                  r == req'[w].rlimit
                  k == key_prefix(req'[w].client)
                         \o str(WindowEnd(now, method_limit[2]))
                  before == IF exists(redis, k, now) THEN redis[k].count
                            ELSE 0
              IN /\ r.limit = method_limit[1] /\ r.period = method_limit[2]
                 /\ r.reset = WindowEnd(now, method_limit[2])
                 /\ r.key = k
                 /\ redis'[k].count = before + 1
                 /\ \A j \in DOMAIN redis \ {k} : redis'[j] = redis[j]
                 /\ \A v \in Workers \ {w} :
                      ( /\ Evaluated(v)
                        /\ req[v].client = req'[w].client
                        /\ req[v].rlimit.reset = r.reset )
                      => (req[v].rlimit.key = k /\ before >= 1)
                 /\ IF before + 1 > method_limit[1]
                    THEN /\ req'[w].status = 429 /\ pc'[w] = "done"
                         /\ HandlerUntouched(req'[w])
                    ELSE /\ req'[w].status = 0
                         /\ pc'[w] = HandlerStart(MethodOf(req'[w]))
                 /\ store' = store
       /\ \A w \in Workers :
            req[w].status = 429 => (req'[w] = req[w] /\ pc'[w] = pc[w])
       /\ \A k \in DOMAIN redis' :
            /\ redis'[k].count = Cardinality(CountedUnder(k)')
            /\ \A w \in AdmittedUnder(k)' :
                 Cardinality(AdmittedUnder(k)') <= req'[w].rlimit.limit]_vars

C21_Witness ==
    \E v, w \in Workers :
      /\ v # w
      /\ req[v].client = req[w].client
      /\ req[v].rlimit.key = req[w].rlimit.key
      /\ req[v].status = 429 /\ pc[v] = "done" /\ HandlerUntouched(req[v])
      /\ req[w].status = 200 /\ pc[w] = "done"
      /\ req[w].resp[1].status = STATUS_OK
      /\ store[req[w].resp[1].id] # NoDoc
      /\ redis[req[w].rlimit.key].count = 2
      /\ AdmittedUnder(req[w].rlimit.key) = {w}

====
